---- MODULE Spec2Model ----
(***************************************************************************)
(* State machine of the password-manager GUI controller (ManagerState):    *)
(* the pending operation (temp_message), the modal workflow stack          *)
(* (internal_state), the directory cache (info / vaults), the connection   *)
(* flag (state) and the clipboard record (stored_clipboard).               *)
(* One action per arm of Application::update.                              *)
(***************************************************************************)
EXTENDS Naturals, Sequences, FiniteSets, TLC

VARIABLES
    state,             \* ConnectionState: "Disconnected" | "Connected"
    info,              \* Info: vault name -> Schema (key -> style)
    vaults,            \* BTreeMap<String, Vault>: vault name -> [entries, expanded]
    internal_state,    \* Vec<InternalState>, last element is the active one
    temp_message,      \* TempMessage
    stored_clipboard,  \* Option<Password>: <<>> is None, <<s>> is Some(s)
    clipboard,         \* contents of the system clipboard
    commands,          \* iced Commands returned by update and not yet run
    queue,             \* GUIMessages produced by commands, not yet handled
    writes,            \* history: clipboard writes issued by ClearClipboard, as run
    captures,          \* history: copy number -> what its clipboard read returned
    copies,            \* history: the CopyPassword events that issued commands
    sent,              \* connection.send calls made by the last event
    panicked,          \* an unwrap() failed: the process has aborted
    last,              \* name of the last event handled
    arm,               \* arm of `match active_state` the last Submit or Exit took
    result             \* value returned by the TempMessage method last called alone

vars == <<state, info, vaults, internal_state, temp_message, stored_clipboard,
          clipboard, commands, queue, writes, captures, copies,
          sent, panicked, last, arm, result>>

clipvars == <<stored_clipboard, clipboard, commands, queue, writes, captures, copies>>

\* everything a call of a TempMessage method alone leaves as it is
framevars == <<state, info, vaults, internal_state, stored_clipboard, clipboard,
               commands, queue, writes, captures, copies, sent, panicked, arm>>

----------------------------------------------------------------------------
(* Bounds and input sets *)

MaxStack == 3
MaxCopies == 2

VaultNames == {"bank"}
EntryKeys == {"login"}
Names == {"", "login"}
PromptTexts == {"", "bank"}
PasswordTexts == {"", "p"}
FieldNames == {"password"}
FieldValues == {"", "x"}
Choices == {"Password"}

InitialClipboard == "old"

None == <<>>
Some(x) == <<x>>

EmptyMap == <<>>

\* HashMap::insert
Insert(m, k, v) == [x \in (DOMAIN m) \cup {k} |-> IF x = k THEN v ELSE m[x]]

\* Schema of one vault: key -> style
Schemas == {EmptyMap, ("login" :> "Password"), ("mail" :> "Password")}

\* Directory snapshots pushed by the server
Infos == UNION {[d -> Schemas] : d \in SUBSET VaultNames}

----------------------------------------------------------------------------
(* store.rs (StoreChoice): default choice, default field map, conversion *)

DefaultChoice == "Password"

RequiredFields(choice) ==
    IF choice = "Password" THEN {"password"} ELSE {"username", "password"}

\* StoreChoice::convert_default().as_hash()
DefaultHash(choice) == [f \in RequiredFields(choice) |-> ""]

\* StoreChoice::convert: Some(store) iff every field of the choice is present
ConvertOk(choice, value) == RequiredFields(choice) \subseteq DOMAIN value

Convert(choice, value) ==
    [choice |-> choice, value |-> [f \in RequiredFields(choice) |-> value[f]]]

\* Store::split
Split(store) == <<store.choice, store.value>>

\* Read responses: key -> Store
Stores == {[choice |-> "Password", value |-> ("password" :> "x")]}
ReadsData == {(k :> s) : k \in {"login", "mail"}, s \in Stores}

----------------------------------------------------------------------------
(* TempMessage *)

Empty == [tag |-> "Empty"]
Delete(vault, key) == [tag |-> "Delete", vault |-> vault, key |-> key]
Get(vault, key) == [tag |-> "Get", vault |-> vault, key |-> key]
New(vault, key, choice, value) ==
    [tag |-> "New", vault |-> vault, key |-> key, choice |-> choice, value |-> value]
Update(vault, key, choice, value) ==
    [tag |-> "Update", vault |-> vault, key |-> key, choice |-> choice, value |-> value]
DeleteVault(vault) == [tag |-> "DeleteVault", vault |-> vault]
DeleteEmptyVault(vault) == [tag |-> "DeleteEmptyVault", vault |-> vault]

\* arms of needs_password for the vault variants
needs_password_vault(tm) == tm.tag = "DeleteVault"

\* TempMessage::needs_password
needs_password_of(tm) ==
    CASE tm.tag = "Empty" -> FALSE
      [] tm.tag = "Delete" -> TRUE
      [] tm.tag = "Get" -> TRUE
      [] tm.tag = "New" -> TRUE
      [] tm.tag = "Update" -> TRUE
      [] OTHER -> needs_password_vault(tm)

\* the loop of TempMessage::complete over the field map
filled(fields) == \A f \in DOMAIN fields : fields[f] # ""

\* mutant: complete looks at the key only
complete_ignores_fields(tm) ==
    CASE tm.tag \in {"New", "Update", "Get", "Delete"} -> tm.key # ""
      [] OTHER -> TRUE

\* TempMessage::complete
complete(tm) ==
    CASE tm.tag = "Empty" -> TRUE
      [] tm.tag = "New" -> tm.key # "" /\ filled(tm.value)
      [] tm.tag = "Update" -> tm.key # "" /\ filled(tm.value)
      [] tm.tag = "Get" -> tm.key # ""
      [] tm.tag = "Delete" -> tm.key # ""
      [] OTHER -> TRUE

\* ManagerMessage values
InfoMsg == [tag |-> "Info"]
DeleteMsg(vault, password, key) ==
    [tag |-> "Delete", vault |-> vault, password |-> password, key |-> key]
GetMsg(vault, password, key) ==
    [tag |-> "Get", vault |-> vault, password |-> password, key |-> key]
UpdateMsg(vault, password, key, store) ==
    [tag |-> "Update", vault |-> vault, password |-> password, key |-> key,
     store |-> store]
DeleteVaultMsg(vault, password) ==
    [tag |-> "DeleteVault", vault |-> vault, password |-> password]
DeleteEmptyVaultMsg(vault) == [tag |-> "DeleteEmptyVault", vault |-> vault]
NewVaultMsg(vault) == [tag |-> "NewVault", vault |-> vault]

\* with_password for the vault variants
with_password_vault(tm, password) ==
    IF tm.tag = "DeleteVault" THEN DeleteVaultMsg(tm.vault, password)
    ELSE DeleteEmptyVaultMsg(tm.vault)

\* choice.convert(value).unwrap() does not panic
with_password_ok(tm) ==
    tm.tag \in {"New", "Update"} => ConvertOk(tm.choice, tm.value)

\* TempMessage::with_password
with_password(tm, password) ==
    CASE tm.tag = "Delete" -> DeleteMsg(tm.vault, password, tm.key)
      [] tm.tag = "Get" -> GetMsg(tm.vault, password, tm.key)
      [] tm.tag = "New" ->
            UpdateMsg(tm.vault, password, tm.key, Convert(tm.choice, tm.value))
      [] tm.tag = "Update" ->
            UpdateMsg(tm.vault, password, tm.key, Convert(tm.choice, tm.value))
      [] tm.tag = "Empty" -> InfoMsg
      [] OTHER -> with_password_vault(tm, password)

----------------------------------------------------------------------------
(* InternalState steps *)

\* PasswordState::default() is PasswordState(FALSE), PasswordState::new(true) is
\* PasswordState(TRUE): the confirmation text exists iff it is required
PasswordState(confirm_required) ==
    [kind |-> "Password", password |-> "",
     confirm |-> IF confirm_required THEN Some("") ELSE None]

\* PasswordState::valid
valid(p) ==
    /\ p.password # ""
    /\ p.confirm # None => p.confirm = Some(p.password)

\* EntryState::from_entry
EntryState(vault, key, style) ==
    [kind |-> "Entry", vault |-> vault, key |-> key, choice |-> style,
     value |-> DefaultHash(style)]

\* EntryState::update
EntryUpdate(entry, store) ==
    [entry EXCEPT !.choice = store.choice, !.value = store.value]

\* EntryState::get_password
EntryPassword(entry) ==
    IF "password" \in DOMAIN entry.value /\ entry.value["password"] # ""
    THEN Some(entry.value["password"]) ELSE None

\* NewEntryState::for_vault
NewEntryState(vault) ==
    [kind |-> "New", vault |-> vault, name |-> "", choice |-> DefaultChoice,
     value |-> DefaultHash(DefaultChoice)]

\* PromptState::default()
PromptState == [kind |-> "Prompt", vault |-> ""]

\* Vault::new followed by Vault::update(schema)
Vault(name, schema, expanded) ==
    [name |-> name, entries |-> DOMAIN schema, expanded |-> expanded]

DefaultExpanded == FALSE

\* Vault::toggle
toggle(vault) == [vault EXCEPT !.expanded = ~vault.expanded]

----------------------------------------------------------------------------
(* ManagerState helpers *)

has_active == Len(internal_state) > 0

\* ManagerState::active_state
active_state == internal_state[Len(internal_state)]

top_is(kind) == has_active /\ active_state.kind = kind

\* write through active_state_mut
set_active(s) == [internal_state EXCEPT ![Len(internal_state)] = s]

push(s) == Append(internal_state, s)

pop == SubSeq(internal_state, 1, Len(internal_state) - 1)

\* ManagerState::get_password: the first PasswordState from the bottom
get_password ==
    LET idx == {i \in 1..Len(internal_state) : internal_state[i].kind = "Password"}
    IN IF idx = {} THEN None
       ELSE Some(internal_state[CHOOSE i \in idx : \A j \in idx : i <= j].password)

\* mutant: send_message hands the requests over whatever the connection state
send_message_ignores_state(st, msgs) == msgs

\* ManagerState::send_message, under connection state st
send_message(st, msgs) == IF st = "Connected" THEN msgs ELSE <<>>

\* result of a handler: new stack, new pending operation, messages handed to
\* send_message, and whether an unwrap() panicked
Result(st, tm, msgs) ==
    [internal_state |-> st, temp_message |-> tm, messages |-> msgs, panic |-> FALSE]

Panic ==
    [internal_state |-> internal_state, temp_message |-> temp_message,
     messages |-> <<>>, panic |-> TRUE]

NoChange == Result(internal_state, temp_message, <<>>)

\* self.info.get(vault).unwrap().get(key).unwrap() does not panic
info_has(vault, key) == vault \in DOMAIN info /\ key \in DOMAIN info[vault]

\* mutant: the Get arm finalizes like the other arms (refresh, reset)
submit_get_resets(password) ==
    Result(<<>>, Empty, <<with_password(temp_message, password), InfoMsg>>)

\* handle_password_submit, arm TempMessage::Get
submit_get(password) ==
    IF ~info_has(temp_message.vault, temp_message.key) THEN Panic
    ELSE Result(
            push(EntryState(temp_message.vault, temp_message.key,
                            info[temp_message.vault][temp_message.key])),
            Update(temp_message.vault, temp_message.key, DefaultChoice,
                   DefaultHash(DefaultChoice)),
            <<with_password(temp_message, password)>>)

\* mutant: the finalizing arms forget the directory refresh
submit_finalize_no_refresh(password) ==
    IF ~with_password_ok(temp_message) THEN Panic
    ELSE Result(<<>>, Empty, <<with_password(temp_message, password)>>)

\* handle_password_submit, arms that finalize and reset
submit_finalize(password) ==
    IF ~with_password_ok(temp_message) THEN Panic
    ELSE Result(<<>>, Empty, <<with_password(temp_message, password), InfoMsg>>)

\* handle_password_submit, arm TempMessage::Empty
submit_empty == Result(<<>>, Empty, <<>>)

\* ManagerState::handle_password_submit
handle_password_submit(password) ==
    CASE temp_message.tag = "Get" -> submit_get(password)
      [] temp_message.tag = "Empty" -> submit_empty
      [] OTHER -> submit_finalize(password)

----------------------------------------------------------------------------
(* Application::update: one result per message *)

\* mutant: the password prompt is submitted without asking valid()
submit_password_unchecked == handle_password_submit(active_state.password)

\* GUIMessage::Submit, InternalState::Password
submit_password ==
    IF valid(active_state) THEN handle_password_submit(active_state.password)
    ELSE NoChange

\* mutant: the first entry of an empty vault is not asked to confirm
submit_new_never_confirms ==
    IF active_state.vault \in DOMAIN info /\ complete(temp_message)
    THEN IF DOMAIN info[active_state.vault] = {}
         THEN Result(push(PasswordState(FALSE)), temp_message, <<>>)
         ELSE IF active_state.name \notin DOMAIN info[active_state.vault]
              THEN Result(push(PasswordState(FALSE)), temp_message, <<>>)
              ELSE NoChange
    ELSE NoChange

\* mutant: the duplicate-key check is missing
submit_new_no_duplicate_check ==
    IF active_state.vault \in DOMAIN info /\ complete(temp_message)
    THEN IF DOMAIN info[active_state.vault] = {}
         THEN Result(push(PasswordState(TRUE)), temp_message, <<>>)
         ELSE Result(push(PasswordState(FALSE)), temp_message, <<>>)
    ELSE NoChange

\* GUIMessage::Submit, InternalState::New
submit_new ==
    IF active_state.vault \in DOMAIN info /\ complete(temp_message)
    THEN IF DOMAIN info[active_state.vault] = {}
         THEN Result(push(PasswordState(TRUE)), temp_message, <<>>)
         ELSE IF active_state.name \notin DOMAIN info[active_state.vault]
              THEN Result(push(PasswordState(FALSE)), temp_message, <<>>)
              ELSE NoChange
    ELSE NoChange

\* mutant: the entry form never reuses a password already in the stack
submit_entry_asks_again ==
    IF /\ active_state.vault \in DOMAIN info
       /\ active_state.key \in DOMAIN info[active_state.vault]
       /\ complete(temp_message)
    THEN Result(push(PasswordState(FALSE)), temp_message, <<>>)
    ELSE NoChange

\* GUIMessage::Submit, InternalState::Entry
submit_entry ==
    IF /\ active_state.vault \in DOMAIN info
       /\ active_state.key \in DOMAIN info[active_state.vault]
       /\ complete(temp_message)
    THEN IF get_password # None
         THEN IF ~with_password_ok(temp_message) THEN Panic
              ELSE Result(<<>>, Empty, <<with_password(temp_message, get_password[1])>>)
         ELSE Result(push(PasswordState(FALSE)), temp_message, <<>>)
    ELSE NoChange

\* mutant: the vault-name prompt accepts a name that is already a vault
submit_prompt_no_duplicate_check ==
    IF active_state.vault # ""
    THEN Result(pop, temp_message, <<NewVaultMsg(active_state.vault), InfoMsg>>)
    ELSE NoChange

\* GUIMessage::Submit, InternalState::Prompt
submit_prompt ==
    IF active_state.vault \notin DOMAIN info /\ active_state.vault # ""
    THEN Result(pop, temp_message, <<NewVaultMsg(active_state.vault), InfoMsg>>)
    ELSE NoChange

\* GUIMessage::Submit
on_submit ==
    IF ~has_active THEN NoChange
    ELSE CASE active_state.kind = "Password" -> submit_password
           [] active_state.kind = "New" -> submit_new
           [] active_state.kind = "Entry" -> submit_entry
           [] active_state.kind = "Prompt" -> submit_prompt

\* mutant: cancelling the password prompt never resets the pending operation
exit_password_keeps_pending == Result(pop, temp_message, <<>>)

\* mutant: cancelling the password prompt always resets the pending operation
exit_password_resets_all == Result(pop, Empty, <<>>)

\* GUIMessage::Exit, InternalState::Password
exit_password ==
    Result(pop,
           IF temp_message.tag \in {"Delete", "Get", "DeleteVault", "DeleteEmptyVault"}
           THEN Empty ELSE temp_message,
           <<>>)

\* mutant: cancelling a form removes the form only
exit_form_pops_only == Result(pop, Empty, <<>>)

\* GUIMessage::Exit, InternalState::Entry and InternalState::New
exit_form == Result(<<>>, Empty, <<>>)

\* GUIMessage::Exit, InternalState::Prompt
exit_prompt == Result(pop, temp_message, <<>>)

\* GUIMessage::Exit
on_exit ==
    IF ~has_active THEN NoChange
    ELSE CASE active_state.kind = "Password" -> exit_password
           [] active_state.kind = "Entry" -> exit_form
           [] active_state.kind = "New" -> exit_form
           [] active_state.kind = "Prompt" -> exit_prompt

\* mutant: the error handler clears the stack but keeps the pending operation
on_receive_error_keeps_pending == Result(<<>>, temp_message, <<>>)

\* connection::Event::ReceiveError
on_receive_error == Result(<<>>, Empty, <<>>)

\* the needs_password() check that ends the start-operation arms
push_if_needs_password(tm) ==
    IF needs_password_of(tm) THEN push(PasswordState(FALSE)) ELSE internal_state

\* VaultMessage::Entry(EntryMessage::Delete, key)
on_entry_delete(vault, key) ==
    Result(push_if_needs_password(Delete(vault, key)), Delete(vault, key), <<>>)

\* VaultMessage::Entry(EntryMessage::View, key)
on_entry_view(vault, key) ==
    Result(push_if_needs_password(Get(vault, key)), Get(vault, key), <<>>)

\* VaultMessage::NewEntry
on_new_entry(vault) ==
    Result(push(NewEntryState(vault)),
           New(vault, "", DefaultChoice, DefaultHash(DefaultChoice)),
           <<>>)

\* VaultMessage::Delete
on_vault_delete(vault) ==
    IF vault \notin DOMAIN info THEN Panic
    ELSE IF DOMAIN info[vault] = {}
         THEN Result(push_if_needs_password(temp_message), temp_message,
                     <<DeleteEmptyVaultMsg(vault), InfoMsg>>)
         ELSE Result(push_if_needs_password(DeleteVault(vault)), DeleteVault(vault), <<>>)

\* GUIMessage::NewVault
on_new_vault == Result(push(PromptState), temp_message, <<>>)

\* GUIMessage::PasswordChanged
on_password_changed(p) ==
    IF top_is("Password")
    THEN Result(set_active([active_state EXCEPT !.password = p]), temp_message, <<>>)
    ELSE NoChange

\* GUIMessage::PasswordConfirmChanged
on_password_confirm_changed(p) ==
    IF top_is("Password")
    THEN Result(set_active([active_state EXCEPT !.confirm = Some(p)]), temp_message, <<>>)
    ELSE NoChange

\* GUIMessage::PromptChanged
on_prompt_changed(p) ==
    IF top_is("Prompt")
    THEN Result(set_active([active_state EXCEPT !.vault = p]), temp_message, <<>>)
    ELSE NoChange

\* GUIMessage::ChangeName
on_change_name(n) ==
    Result(IF top_is("New") THEN set_active([active_state EXCEPT !.name = n])
           ELSE internal_state,
           IF temp_message.tag = "New" THEN [temp_message EXCEPT !.key = n]
           ELSE temp_message,
           <<>>)

\* GUIMessage::SelectStyle
on_select_style(choice) ==
    Result(IF top_is("New")
           THEN set_active([active_state EXCEPT !.choice = choice,
                                                 !.value = DefaultHash(choice)])
           ELSE internal_state,
           IF temp_message.tag = "New"
           THEN [temp_message EXCEPT !.choice = choice, !.value = DefaultHash(choice)]
           ELSE temp_message,
           <<>>)

\* GUIMessage::UpdateField
on_update_field(k, v) ==
    Result(IF top_is("New") \/ top_is("Entry")
           THEN set_active([active_state EXCEPT !.value = Insert(@, k, v)])
           ELSE internal_state,
           IF temp_message.tag \in {"New", "Update"}
           THEN [temp_message EXCEPT !.value = Insert(@, k, v)]
           ELSE temp_message,
           <<>>)

\* ManagerState::update_entry
update_entry(data) ==
    Result(IF top_is("Entry") /\ active_state.key \in DOMAIN data
           THEN set_active(EntryUpdate(active_state, data[active_state.key]))
           ELSE internal_state,
           IF temp_message.tag = "Update" /\ temp_message.key \in DOMAIN data
           THEN [temp_message EXCEPT !.choice = Split(data[temp_message.key])[1],
                                     !.value = Split(data[temp_message.key])[2]]
           ELSE temp_message,
           <<>>)

\* mutant: the rebuilt vault list forgets the expanded flags
update_vaults_resets_flags(new_info) ==
    [name \in DOMAIN new_info |-> Vault(name, new_info[name], DefaultExpanded)]

\* ManagerState::update (directory snapshot): the rebuilt vault list
update_vaults(new_info) ==
    [name \in DOMAIN new_info |->
        Vault(name, new_info[name],
              IF name \in DOMAIN vaults THEN vaults[name].expanded
              ELSE DefaultExpanded)]

----------------------------------------------------------------------------
(* Actions *)

Init ==
    /\ state = "Disconnected"
    /\ info = EmptyMap
    /\ vaults = EmptyMap
    /\ internal_state = <<>>
    /\ temp_message = Empty
    /\ stored_clipboard = None
    /\ clipboard = InitialClipboard
    /\ commands = {}
    /\ queue = {}
    /\ writes = <<>>
    /\ captures = EmptyMap
    /\ copies = <<>>
    /\ sent = <<>>
    /\ panicked = FALSE
    /\ last = "init"
    /\ arm = "none"
    /\ result = None

\* apply a handler result to the state
Apply(ev, r) ==
    /\ ~panicked
    /\ Len(r.internal_state) <= MaxStack
    /\ last' = ev
    /\ arm' = IF ev \in {"Submit", "Exit"} /\ has_active THEN active_state.kind
              ELSE "none"
    /\ panicked' = r.panic
    /\ internal_state' = r.internal_state
    /\ temp_message' = r.temp_message
    /\ sent' = send_message(state, r.messages)
    /\ UNCHANGED <<state, info, vaults>>
    /\ UNCHANGED clipvars
    /\ UNCHANGED result

Connected ==
    /\ ~panicked
    /\ state' = "Connected"
    /\ sent' = send_message("Connected", <<InfoMsg>>)
    /\ last' = "Connected"
    /\ arm' = "none"
    /\ UNCHANGED <<info, vaults, internal_state, temp_message, panicked>>
    /\ UNCHANGED clipvars
    /\ UNCHANGED result

Disconnected ==
    /\ ~panicked
    /\ state' = "Disconnected"
    /\ sent' = <<>>
    /\ last' = "Disconnected"
    /\ arm' = "none"
    /\ UNCHANGED <<info, vaults, internal_state, temp_message, panicked>>
    /\ UNCHANGED clipvars
    /\ UNCHANGED result

ReceiveInfo(new_info) ==
    /\ ~panicked
    /\ vaults' = update_vaults(new_info)
    /\ info' = new_info
    /\ sent' = <<>>
    /\ last' = "ReceiveInfo"
    /\ arm' = "none"
    /\ UNCHANGED <<state, internal_state, temp_message, panicked>>
    /\ UNCHANGED clipvars
    /\ UNCHANGED result

ReceiveRead(data) == Apply("ReceiveRead", update_entry(data))

ReceiveError == Apply("ReceiveError", on_receive_error)

EntryDelete(vault, key) == Apply("EntryDelete", on_entry_delete(vault, key))

EntryView(vault, key) == Apply("EntryView", on_entry_view(vault, key))

NewEntry(vault) == Apply("NewEntry", on_new_entry(vault))

VaultDelete(vault) == Apply("VaultDelete", on_vault_delete(vault))

NewVault == Apply("NewVault", on_new_vault)

PasswordChanged(p) == Apply("PasswordChanged", on_password_changed(p))

PasswordConfirmChanged(p) ==
    Apply("PasswordConfirmChanged", on_password_confirm_changed(p))

PromptChanged(p) == Apply("PromptChanged", on_prompt_changed(p))

ChangeName(n) == Apply("ChangeName", on_change_name(n))

SelectStyle(choice) == Apply("SelectStyle", on_select_style(choice))

UpdateField(k, v) == Apply("UpdateField", on_update_field(k, v))

Submit == Apply("Submit", on_submit)

Exit == Apply("Exit", on_exit)

\* Every message of update is offered in every state; the vault messages name
\* a vault (and entry) of the rendered vault list, which mirrors the cache.
Next ==
    \/ Connected
    \/ Disconnected
    \/ \E i \in Infos : ReceiveInfo(i)
    \/ \E d \in ReadsData : ReceiveRead(d)
    \/ ReceiveError
    \/ \E v \in VaultNames, k \in EntryKeys : info_has(v, k) /\ EntryDelete(v, k)
    \/ \E v \in VaultNames, k \in EntryKeys : info_has(v, k) /\ EntryView(v, k)
    \/ \E v \in VaultNames : v \in DOMAIN info /\ NewEntry(v)
    \/ \E v \in VaultNames : v \in DOMAIN info /\ VaultDelete(v)
    \/ NewVault
    \/ \E p \in PasswordTexts : PasswordChanged(p)
    \/ \E p \in PasswordTexts : PasswordConfirmChanged(p)
    \/ \E p \in PromptTexts : PromptChanged(p)
    \/ \E n \in Names : ChangeName(n)
    \/ \E c \in Choices : SelectStyle(c)
    \/ \E k \in FieldNames, v \in FieldValues : UpdateField(k, v)
    \/ Submit
    \/ Exit

Spec == Init /\ [][Next]_vars

\* the messages of Spec, the outputs of the server arriving only while the
\* connection is up
NextSession ==
    \/ Connected
    \/ Disconnected
    \/ \E i \in Infos : state = "Connected" /\ ReceiveInfo(i)
    \/ \E d \in ReadsData : state = "Connected" /\ ReceiveRead(d)
    \/ state = "Connected" /\ ReceiveError
    \/ \E v \in VaultNames, k \in EntryKeys : info_has(v, k) /\ EntryDelete(v, k)
    \/ \E v \in VaultNames, k \in EntryKeys : info_has(v, k) /\ EntryView(v, k)
    \/ \E v \in VaultNames : v \in DOMAIN info /\ NewEntry(v)
    \/ \E v \in VaultNames : v \in DOMAIN info /\ VaultDelete(v)
    \/ NewVault
    \/ \E p \in PasswordTexts : PasswordChanged(p)
    \/ \E p \in PasswordTexts : PasswordConfirmChanged(p)
    \/ \E p \in PromptTexts : PromptChanged(p)
    \/ \E n \in Names : ChangeName(n)
    \/ \E c \in Choices : SelectStyle(c)
    \/ \E k \in FieldNames, v \in FieldValues : UpdateField(k, v)
    \/ Submit
    \/ Exit

SpecSession == Init /\ [][NextSession]_vars

\* VaultMessage::Toggle
Toggle(name) ==
    /\ ~panicked
    /\ vaults' = IF name \in DOMAIN vaults THEN [vaults EXCEPT ![name] = toggle(@)]
                 ELSE vaults
    /\ last' = "Toggle"
    /\ arm' = "none"
    /\ sent' = <<>>
    /\ UNCHANGED <<state, info, internal_state, temp_message, panicked>>
    /\ UNCHANGED clipvars
    /\ UNCHANGED result

\* every message of Spec, and the expand toggle of the vault list
NextCache ==
    \/ Next
    \/ \E v \in VaultNames : Toggle(v)

SpecCache == Init /\ [][NextCache]_vars

----------------------------------------------------------------------------
(* TempMessage methods called alone, on every pending operation of a bounded
   set *)

MethodVaults == {"bank", "temp"}
MethodKeys == {"", "login"}
MethodFields == {"username", "password"}
MethodValues == {"", "x"}

\* HashMap<String, String> values of the field map
FieldMaps == UNION {[d -> MethodValues] : d \in SUBSET MethodFields}

\* values of the enum TempMessage
TempMessages ==
    {Empty}
    \cup {Delete(v, k) : v \in MethodVaults, k \in MethodKeys}
    \cup {Get(v, k) : v \in MethodVaults, k \in MethodKeys}
    \cup UNION {{New(v, k, c, m), Update(v, k, c, m)} :
                    v \in MethodVaults, k \in MethodKeys, c \in Choices, m \in FieldMaps}

\* the password prompt as it stands when a valid password has been typed
TypedPassword == [PasswordState(FALSE) EXCEPT !.password = "p"]

\* stacks on which a submit finalizes the pending operation: a valid password
\* prompt alone, and the entry form over the prompt that opened it
MethodStacks ==
    {<<TypedPassword>>,
     <<TypedPassword, EntryState("bank", "login", DefaultChoice)>>}

MethodInfo == ("bank" :> ("login" :> "Password"))

InitMethod ==
    /\ state = "Connected"
    /\ info = MethodInfo
    /\ vaults = [name \in DOMAIN MethodInfo |->
                    Vault(name, MethodInfo[name], DefaultExpanded)]
    /\ internal_state \in MethodStacks
    /\ temp_message \in TempMessages
    /\ stored_clipboard = None
    /\ clipboard = InitialClipboard
    /\ commands = {}
    /\ queue = {}
    /\ writes = <<>>
    /\ captures = EmptyMap
    /\ copies = <<>>
    /\ sent = <<>>
    /\ panicked = FALSE
    /\ last = "init"
    /\ arm = "none"
    /\ result = None

\* self.temp_message.complete()
CallComplete ==
    /\ last = "init"
    /\ last' = "complete"
    /\ result' = Some(complete(temp_message))
    /\ UNCHANGED temp_message
    /\ UNCHANGED framevars

\* GUIMessage::Submit, which finalizes through with_password
CallSubmit ==
    /\ last = "init"
    /\ Submit

NextMethod ==
    \/ CallComplete
    \/ CallSubmit

SpecMethod == InitMethod /\ [][NextMethod]_vars

\* the new-entry workflow alone: the form, its edits, the password prompt
NextNewEntry ==
    \/ Connected
    \/ \E i \in Infos : ReceiveInfo(i)
    \/ \E v \in VaultNames : v \in DOMAIN info /\ NewEntry(v)
    \/ \E p \in PasswordTexts : PasswordChanged(p)
    \/ \E p \in PasswordTexts : PasswordConfirmChanged(p)
    \/ \E n \in Names : ChangeName(n)
    \/ \E c \in Choices : SelectStyle(c)
    \/ \E k \in FieldNames, v \in FieldValues : UpdateField(k, v)
    \/ Submit
    \/ Exit

SpecNewEntry == Init /\ [][NextNewEntry]_vars

----------------------------------------------------------------------------
(* Clipboard: CopyPassword, CopyClipboard, ClearClipboard and the commands
   they return to the runtime *)

\* iced::clipboard::read(|s| GUIMessage::CopyClipboard(..)) of copy number id
ReadCmd(id) == [op |-> "read", id |-> id]

\* iced::clipboard::write(value)
WriteCmd(id, value) == [op |-> "write", id |-> id, value |-> value]

\* delayed_command(clipboard_time, |_| GUIMessage::ClearClipboard)
delayed_command(id) == [op |-> "delay", id |-> id]

\* the write returned by GUIMessage::ClearClipboard
RestoreCmd(id, value) == [op |-> "restore", id |-> id, value |-> value]

\* Command::batch returned by GUIMessage::CopyPassword
copy_batch(id, secret) == {ReadCmd(id), WriteCmd(id, secret), delayed_command(id)}

\* a timer of an earlier copy has not fired yet
timer_pending == \E c \in commands : c.op = "delay"

\* GUIMessage::CopyPassword
CopyPassword ==
    /\ ~panicked
    /\ Len(copies) < MaxCopies
    /\ top_is("Entry")
    /\ EntryPassword(active_state) # None
    /\ LET id == Len(copies) + 1
           secret == EntryPassword(active_state)[1]
       IN /\ commands' = commands \cup copy_batch(id, secret)
          /\ copies' = Append(copies, [secret |-> secret, overlaps |-> timer_pending])
    /\ last' = "CopyPassword"
    /\ arm' = "none"
    /\ sent' = <<>>
    /\ UNCHANGED <<state, info, vaults, internal_state, temp_message, panicked,
                   stored_clipboard, clipboard, queue, writes, captures, result>>

\* the runtime performs a clipboard read: the contents, or None when the
\* clipboard cannot be read
RunRead ==
    /\ ~panicked
    /\ \E c \in commands, data \in {Some(clipboard), None} :
        /\ c.op = "read"
        /\ commands' = commands \ {c}
        /\ queue' = queue \cup {[msg |-> "CopyClipboard", id |-> c.id, data |-> data]}
        /\ captures' = Insert(captures, c.id, data)
    /\ UNCHANGED <<last, arm, sent, state, info, vaults, internal_state, temp_message, panicked,
                   stored_clipboard, clipboard, writes, copies, result>>

\* the runtime performs a clipboard write
RunWrite ==
    /\ ~panicked
    /\ \E c \in commands :
        /\ c.op \in {"write", "restore"}
        /\ commands' = commands \ {c}
        /\ clipboard' = c.value
        /\ writes' = IF c.op = "restore" THEN Append(writes, c.value) ELSE writes
    /\ UNCHANGED <<last, arm, sent, state, info, vaults, internal_state, temp_message, panicked,
                   stored_clipboard, queue, captures, copies, result>>

\* the sleep of delayed_command ends
TimerFires ==
    /\ ~panicked
    /\ \E c \in commands :
        /\ c.op = "delay"
        /\ commands' = commands \ {c}
        /\ queue' = queue \cup {[msg |-> "ClearClipboard", id |-> c.id]}
    /\ UNCHANGED <<last, arm, sent, state, info, vaults, internal_state, temp_message, panicked,
                   stored_clipboard, clipboard, writes, captures, copies, result>>

\* GUIMessage::CopyClipboard(data)
CopyClipboard ==
    /\ ~panicked
    /\ \E m \in queue :
        /\ m.msg = "CopyClipboard"
        /\ queue' = queue \ {m}
        /\ stored_clipboard' = m.data
    /\ last' = "CopyClipboard"
    /\ arm' = "none"
    /\ sent' = <<>>
    /\ UNCHANGED <<state, info, vaults, internal_state, temp_message, panicked,
                   clipboard, commands, writes, captures, copies, result>>

\* the contents GUIMessage::ClearClipboard writes back
clear_contents == IF stored_clipboard = None THEN "" ELSE stored_clipboard[1]

\* GUIMessage::ClearClipboard
ClearClipboard ==
    /\ ~panicked
    /\ \E m \in queue :
        /\ m.msg = "ClearClipboard"
        /\ queue' = queue \ {m}
        /\ commands' = commands \cup {RestoreCmd(m.id, clear_contents)}
    /\ stored_clipboard' = None
    /\ last' = "ClearClipboard"
    /\ arm' = "none"
    /\ sent' = <<>>
    /\ UNCHANGED <<state, info, vaults, internal_state, temp_message, panicked,
                   clipboard, writes, captures, copies, result>>

\* one entry is opened and its password edited; then the clipboard events and
\* the runtime's execution of their commands
NextClip ==
    \/ info = EmptyMap /\ ReceiveInfo("bank" :> ("login" :> "Password"))
    \/ internal_state = <<>> /\ EntryView("bank", "login")
    \/ top_is("Password") /\ PasswordChanged("p")
    \/ top_is("Password") /\ Submit
    \/ top_is("Entry") /\ Len(copies) = 0 /\ UpdateField("password", "a")
    \/ top_is("Entry") /\ Len(copies) = 1 /\ UpdateField("password", "b")
    \/ CopyPassword
    \/ RunRead
    \/ RunWrite
    \/ TimerFires
    \/ CopyClipboard
    \/ ClearClipboard

SpecClip == Init /\ [][NextClip]_vars

----------------------------------------------------------------------------
(* Claims about the pending-operation state machine *)

StartEvents == {"EntryDelete", "EntryView", "NewEntry", "VaultDelete"}

PasswordRequests == {"Get", "Delete", "Update", "DeleteVault"}

\* a valid PasswordPrompt is the active step
valid_password_on_top == top_is("Password") /\ valid(active_state)

\* C1: every Read, Delete, Write or DeleteVault request handed to the
\* connection carries a non-empty password.
C1_RequestsCarryPassword ==
    \A i \in 1..Len(sent) :
        sent[i].tag \in PasswordRequests => sent[i].password # ""

\* C2: every Write request handed to the connection has a non-empty key and
\* only non-empty field values.
C2_WriteRequestsComplete ==
    \A i \in 1..Len(sent) :
        sent[i].tag = "Update" =>
            sent[i].key # "" /\ filled(sent[i].store.value)

\* C3: after a remote-error event the Workflow Stack is empty and the Pending
\* Operation is Empty, whatever they were before.
C3_ErrorResets ==
    last = "ReceiveError" => internal_state = <<>> /\ temp_message = Empty

C3_Witness ==
    /\ last = "ReceiveError"
    /\ state = "Connected"
    /\ internal_state = <<>>
    /\ temp_message = Empty

\* C4: immediately after a start-operation event the Workflow Stack holds at
\* most one step.
C4_StartDiscardsStack ==
    last \in StartEvents => Len(internal_state) <= 1

\* C5: a valid password submit with Delete(vault, key) pending, while
\* connected, sends exactly the delete request carrying the password and the
\* key, then a directory refresh, and leaves stack and pending operation empty.
C5_DeleteSubmit ==
    [][(/\ last' = "Submit"
        /\ state = "Connected"
        /\ temp_message.tag = "Delete"
        /\ valid_password_on_top)
       => /\ sent' = <<DeleteMsg(temp_message.vault, active_state.password,
                                 temp_message.key), InfoMsg>>
          /\ internal_state' = <<>>
          /\ temp_message' = Empty]_vars

C5_Witness ==
    /\ last = "Submit"
    /\ sent = <<DeleteMsg("bank", "p", "login"), InfoMsg>>
    /\ internal_state = <<>>
    /\ temp_message = Empty

\* the requests the claim of C6 expects of a password submit
C6_expected(tm, password) ==
    IF tm.tag = "Empty" THEN <<with_password(tm, password)>>
    ELSE <<with_password(tm, password), InfoMsg>>

\* C6 as stated: a valid password submit that is handled to the end, for
\* every variant, sends one request (plus a refresh unless Empty), empties the
\* stack and resets the pending operation.
C6_Original ==
    [][(/\ last' = "Submit"
        /\ state = "Connected"
        /\ valid_password_on_top
        /\ ~panicked')
       => /\ sent' = C6_expected(temp_message, active_state.password)
          /\ internal_state' = <<>>
          /\ temp_message' = Empty]_vars

\* C6 as amended: a valid password submit
\*  - for Delete, DeleteVault, Create and Write hands the finalized request and
\*    a directory refresh to send_message, empties the stack, resets the
\*    pending operation;
\*  - for Read of a key in the Directory Cache hands only the Read request to
\*    send_message, pushes an ExistingEntryForm on top of the stack and makes
\*    Write(vault, key, default fields) the pending operation;
\*  - for Read of a key absent from the Directory Cache aborts the process
\*    with nothing sent;
\*  - for Empty sends nothing, empties the stack;
\* and what send_message is handed reaches the connection iff connected.
C6_PasswordSubmit ==
    [][(/\ last' = "Submit"
        /\ valid_password_on_top)
       => LET pw == active_state.password
              tm == temp_message
              out(msgs) == IF state = "Connected" THEN msgs ELSE <<>>
          IN CASE tm.tag \in {"Delete", "DeleteVault", "New", "Update"} ->
                    /\ sent' = out(<<with_password(tm, pw), InfoMsg>>)
                    /\ internal_state' = <<>>
                    /\ temp_message' = Empty
                    /\ ~panicked'
               [] tm.tag = "Get" /\ info_has(tm.vault, tm.key) ->
                    /\ sent' = out(<<GetMsg(tm.vault, pw, tm.key)>>)
                    /\ Len(internal_state') = Len(internal_state) + 1
                    /\ SubSeq(internal_state', 1, Len(internal_state)) = internal_state
                    /\ internal_state'[Len(internal_state')].kind = "Entry"
                    /\ internal_state'[Len(internal_state')].vault = tm.vault
                    /\ internal_state'[Len(internal_state')].key = tm.key
                    /\ temp_message' = Update(tm.vault, tm.key, DefaultChoice,
                                              DefaultHash(DefaultChoice))
                    /\ ~panicked'
               [] tm.tag = "Get" /\ ~info_has(tm.vault, tm.key) ->
                    /\ panicked'
                    /\ sent' = <<>>
               [] tm.tag = "Empty" ->
                    /\ sent' = <<>>
                    /\ internal_state' = <<>>
                    /\ temp_message' = Empty
                    /\ ~panicked']_vars

C6_Witness ==
    /\ last = "Submit"
    /\ sent = <<GetMsg("bank", "p", "login")>>
    /\ Len(internal_state) = 2
    /\ internal_state[1].kind = "Password"
    /\ internal_state[2].kind = "Entry"
    /\ temp_message.tag = "Update"

\* the event's vault has a Directory Cache entry with zero keys
vault_is_empty(vault) == vault \in DOMAIN info /\ DOMAIN info[vault] = {}

\* C7: a delete-vault event on a vault with zero keys in the Directory Cache
\* sends DeleteEmptyVault and a refresh, pushes nothing and leaves the Pending
\* Operation alone.
C7_DeleteEmptyVault ==
    [][(/\ last' = "VaultDelete"
        /\ \A v \in VaultNames : vault_is_empty(v))
       => /\ internal_state' = internal_state
          /\ temp_message' = temp_message
          /\ state = "Connected" =>
                \E v \in VaultNames : sent' = <<DeleteEmptyVaultMsg(v), InfoMsg>>]_vars

\* a NewEntryForm is active and the pending operation is a complete Create
complete_create_on_top ==
    /\ top_is("New")
    /\ temp_message.tag = "New"
    /\ complete(temp_message)

\* C8: submitting a NewEntryForm with a complete Create pending pushes one
\* PasswordPrompt and sends nothing: with confirmation when the vault has zero
\* keys in the Directory Cache, without when the vault is non-empty and lacks
\* the form's key.
C8_NewEntrySubmit ==
    [][(/\ last' = "Submit"
        /\ complete_create_on_top
        /\ active_state.vault \in DOMAIN info
        /\ \/ DOMAIN info[active_state.vault] = {}
           \/ active_state.name \notin DOMAIN info[active_state.vault])
       => /\ internal_state' =
                Append(internal_state,
                       [kind |-> "Password", password |-> "",
                        confirm |-> IF DOMAIN info[active_state.vault] = {}
                                    THEN Some("") ELSE None])
          /\ temp_message' = temp_message
          /\ sent' = <<>>]_vars

C8_Witness ==
    /\ last = "Submit"
    /\ Len(internal_state) = 2
    /\ internal_state[1].kind = "New"
    /\ internal_state[1].name = "login"
    /\ internal_state[2] = PasswordState(TRUE)
    /\ temp_message.tag = "New"
    /\ vault_is_empty(internal_state[1].vault)

C8_WitnessNoConfirm ==
    /\ last = "Submit"
    /\ Len(internal_state) = 2
    /\ internal_state[1].kind = "New"
    /\ internal_state[2] = PasswordState(FALSE)
    /\ temp_message.tag = "New"
    /\ DOMAIN info[internal_state[1].vault] = {"mail"}

\* the form's key is already a key of the form's vault in the Directory Cache
duplicate_key_on_top ==
    /\ top_is("New")
    /\ active_state.vault \in DOMAIN info
    /\ active_state.name \in DOMAIN info[active_state.vault]

\* C9: submitting a NewEntryForm whose key is already in the vault changes
\* neither the stack nor the pending operation and sends nothing.
C9_DuplicateRefused ==
    [][(last' = "Submit" /\ duplicate_key_on_top)
       => /\ internal_state' = internal_state
          /\ temp_message' = temp_message
          /\ sent' = <<>>]_vars

C9_Witness ==
    /\ last = "Submit"
    /\ duplicate_key_on_top
    /\ complete_create_on_top
    /\ temp_message.key = active_state.name
    /\ sent = <<>>

----------------------------------------------------------------------------
(* Claims about the clipboard *)

\* every command has run and every message has been handled
clip_quiescent == commands = {} /\ queue = {}

\* C10: two copies, the second issued before the first timer fired: once both
\* timers are delivered and their commands have run, exactly one restore write
\* was made, of the contents the second copy captured.
C10_OneRestore ==
    (/\ clip_quiescent
     /\ Len(copies) = 2
     /\ copies[1].secret = "a"
     /\ copies[2].secret = "b"
     /\ copies[2].overlaps)
    => /\ Len(writes) = 1
       /\ writes[1] = IF captures[2] = None THEN "" ELSE captures[2][1]

\* what the restore of copy number id should write: the contents the
\* clipboard held before the copy, or nothing when the capture could not read
previous_contents(id) == IF captures[id] = None THEN "" ELSE InitialClipboard

\* C11: one copy and no other clipboard writer: once the capture, the write of
\* the secret and the timer have completed (in whatever order) and the restore
\* has run, the restore wrote the contents held before the copy (empty if
\* unreadable), the clipboard holds them, and the stored record is absent.
C11_SingleCopyRestores ==
    (/\ clip_quiescent
     /\ Len(copies) = 1
     /\ Len(writes) = 1)
    => /\ writes[1] = previous_contents(1)
       /\ clipboard = previous_contents(1)
       /\ stored_clipboard = None

----------------------------------------------------------------------------
(* Claims about the connection *)

\* C12: while disconnected no event other than the reconnect makes a request
\* reach the connection; a Disconnected event changes neither the Pending
\* Operation nor the Workflow Stack; the reconnect sends only a directory
\* refresh.
C12_DisconnectedSendsNothing ==
    [][/\ (state = "Disconnected" /\ last' # "Connected") => sent' = <<>>
       /\ last' = "Disconnected" =>
             /\ internal_state' = internal_state
             /\ temp_message' = temp_message
       /\ last' = "Connected" => sent' = <<InfoMsg>>]_vars

\* a delete of an empty vault, which always hands requests to send_message,
\* was handled while disconnected
C12_Witness ==
    /\ last = "VaultDelete"
    /\ state = "Disconnected"
    /\ vault_is_empty("bank")
    /\ sent = <<>>
    /\ ~panicked

----------------------------------------------------------------------------
(* Claims about needs_password and complete *)

\* needs_password over one value of every variant
needs_password_table ==
    /\ needs_password_of(Get("bank", "login"))
    /\ needs_password_of(Delete("bank", "login"))
    /\ needs_password_of(DeleteVault("bank"))
    /\ needs_password_of(New("bank", "login", DefaultChoice, DefaultHash(DefaultChoice)))
    /\ needs_password_of(Update("bank", "login", DefaultChoice, DefaultHash(DefaultChoice)))
    /\ ~needs_password_of(Empty)
    /\ ~needs_password_of(DeleteEmptyVault("bank"))

\* C13: needs_password is true for Read, Delete, DeleteVault, Create and
\* Write, false for Empty and DeleteEmptyVault, and a start-operation event
\* pushes a PasswordPrompt exactly when needs_password of the operation it
\* started is true (the delete of a vault with zero keys starts
\* DeleteEmptyVault, every other start event the operation it leaves pending).
C13_StartPushesPrompt ==
    [][/\ needs_password_table
       /\ last' \in StartEvents =>
            LET started ==
                    IF last' = "VaultDelete" /\ \A v \in VaultNames : vault_is_empty(v)
                    THEN DeleteEmptyVault("bank")
                    ELSE temp_message'
            IN (internal_state' = Append(internal_state, PasswordState(FALSE)))
                   <=> needs_password_of(started)]_vars

\* the reference predicate of C14
complete_reference(tm) ==
    CASE tm.tag \in {"New", "Update"} ->
            tm.key # "" /\ ~(\E f \in DOMAIN tm.value : tm.value[f] = "")
      [] tm.tag \in {"Get", "Delete"} -> tm.key # ""
      [] tm.tag = "Empty" -> TRUE

\* C14: complete() equals the reference predicate on every pending operation:
\* Create/Write: key non-empty and every field value non-empty (so true for an
\* empty field map with a non-empty key); Read/Delete: key non-empty; Empty:
\* true.
C14_CompleteMatches ==
    last = "complete" => result = Some(complete_reference(temp_message))

C14_Witness ==
    /\ last = "complete"
    /\ temp_message.tag = "New"
    /\ temp_message.key = "login"
    /\ temp_message.value = EmptyMap
    /\ result = Some(TRUE)

----------------------------------------------------------------------------
(* Claims about cancel *)

\* C15: cancel with a PasswordPrompt on top removes exactly the top layer,
\* resets the Pending Operation if it is Read, Delete or DeleteVault and keeps
\* it if it is Create or Write; cancel with a VaultNamePrompt on top removes
\* exactly that layer and keeps the Pending Operation.
C15_CancelPrompt ==
    [][/\ (last' = "Exit" /\ top_is("Password")) =>
            /\ internal_state' = SubSeq(internal_state, 1, Len(internal_state) - 1)
            /\ temp_message.tag \in {"Get", "Delete", "DeleteVault"} =>
                    temp_message' = Empty
            /\ temp_message.tag \in {"New", "Update"} =>
                    temp_message' = temp_message
       /\ (last' = "Exit" /\ top_is("Prompt")) =>
            /\ internal_state' = SubSeq(internal_state, 1, Len(internal_state) - 1)
            /\ temp_message' = temp_message]_vars

\* a PasswordPrompt over a NewEntryForm was cancelled: the form and the
\* pending Create are still there
C15_Witness ==
    /\ last = "Exit"
    /\ arm = "Password"
    /\ Len(internal_state) = 1
    /\ internal_state[1].kind = "New"
    /\ temp_message.tag = "New"

\* C16: cancel with a NewEntryForm or ExistingEntryForm on top empties the
\* whole Workflow Stack, resets the Pending Operation and sends nothing.
C16_CancelForm ==
    [][(last' = "Exit" /\ (top_is("New") \/ top_is("Entry"))) =>
            /\ internal_state' = <<>>
            /\ temp_message' = Empty
            /\ sent' = <<>>]_vars

\* an ExistingEntryForm (which lies over the PasswordPrompt that opened it) was
\* cancelled while connected
C16_Witness ==
    /\ last = "Exit"
    /\ arm = "Entry"
    /\ state = "Connected"
    /\ internal_state = <<>>
    /\ temp_message = Empty
    /\ sent = <<>>

----------------------------------------------------------------------------
(* Claims about the submit of the entry form and of the vault-name prompt *)

\* the form's key is a key of the form's vault in the Directory Cache
entry_key_in_cache ==
    /\ active_state.vault \in DOMAIN info
    /\ active_state.key \in DOMAIN info[active_state.vault]

\* positions of the PasswordPrompt steps of the stack
password_steps == {i \in 1..Len(internal_state) : internal_state[i].kind = "Password"}

\* C17: submit with an ExistingEntryForm on top.  Key in the Directory Cache
\* and pending Write complete: with a PasswordPrompt lower in the stack, one
\* Write request carrying that prompt's password is handed over (it reaches
\* the connection when connected, and nothing else does), the stack is emptied
\* and the Pending Operation reset; with no PasswordPrompt in the stack, one is
\* pushed and nothing is sent.  Key absent or operation incomplete: nothing
\* changes.
C17_EntrySubmit ==
    [][(last' = "Submit" /\ top_is("Entry")) =>
        /\ (entry_key_in_cache /\ temp_message.tag = "Update" /\ complete(temp_message)) =>
            /\ password_steps # {} =>
                /\ internal_state' = <<>>
                /\ temp_message' = Empty
                /\ state = "Connected" =>
                    /\ Len(sent') = 1
                    /\ sent'[1].tag = "Update"
                    /\ sent'[1].vault = temp_message.vault
                    /\ sent'[1].key = temp_message.key
                    /\ sent'[1].store.value = temp_message.value
                    /\ \E i \in password_steps :
                            sent'[1].password = internal_state[i].password
                /\ state # "Connected" => sent' = <<>>
            /\ password_steps = {} =>
                /\ internal_state' = Append(internal_state, PasswordState(FALSE))
                /\ temp_message' = temp_message
                /\ sent' = <<>>
        /\ (~entry_key_in_cache \/ ~complete(temp_message)) =>
            /\ internal_state' = internal_state
            /\ temp_message' = temp_message
            /\ sent' = <<>>]_vars

\* the entry form was submitted over the prompt that opened it: the Write with
\* that prompt's password went out
C17_Witness ==
    /\ last = "Submit"
    /\ arm = "Entry"
    /\ internal_state = <<>>
    /\ temp_message = Empty
    /\ sent = <<UpdateMsg("bank", "p", "login",
                          [choice |-> "Password", value |-> ("password" :> "x")])>>

\* C18: submit with a VaultNamePrompt on top.  Name non-empty and not a vault
\* of the Directory Cache: exactly the create-vault request followed by the
\* directory refresh is handed over (it reaches the connection when
\* connected), the prompt is popped and no PasswordPrompt is pushed.  Name
\* empty or already a vault: no request, stack unchanged.
C18_PromptSubmit ==
    [][(last' = "Submit" /\ top_is("Prompt")) =>
        LET name == active_state.vault
        IN /\ (name # "" /\ name \notin DOMAIN info) =>
                /\ internal_state' = SubSeq(internal_state, 1, Len(internal_state) - 1)
                /\ state = "Connected" => sent' = <<NewVaultMsg(name), InfoMsg>>
                /\ state # "Connected" => sent' = <<>>
           /\ (name = "" \/ name \in DOMAIN info) =>
                /\ internal_state' = internal_state
                /\ sent' = <<>>]_vars

\* the prompt was submitted with a new name while connected
C18_Witness ==
    /\ last = "Submit"
    /\ arm = "Prompt"
    /\ sent = <<NewVaultMsg("bank"), InfoMsg>>
    /\ internal_state = <<>>

----------------------------------------------------------------------------
(* Claims about the Directory Cache *)

\* C19: after a directory snapshot the cache (info, the snapshot as stored, and
\* the vault list built from it) has exactly the snapshot's vault names with
\* exactly their key sets; a vault of both the old and the new cache keeps its
\* expanded flag, a new one gets the default flag, the others are gone; no
\* event other than a snapshot and the expand toggle changes the cache.
C19_CacheFollowsSnapshot ==
    [][/\ last' = "ReceiveInfo" =>
            /\ DOMAIN vaults' = DOMAIN info'
            /\ \A v \in DOMAIN info' :
                /\ vaults'[v].name = v
                /\ vaults'[v].entries = DOMAIN info'[v]
                /\ vaults'[v].expanded =
                        IF v \in DOMAIN vaults THEN vaults[v].expanded
                        ELSE DefaultExpanded
       /\ last' \notin {"ReceiveInfo", "Toggle"} =>
            /\ info' = info
            /\ vaults' = vaults]_vars

\* a snapshot arrived and a vault kept the non-default flag it had before
C19_Witness ==
    /\ last = "ReceiveInfo"
    /\ "bank" \in DOMAIN vaults
    /\ vaults["bank"].expanded # DefaultExpanded
    /\ vaults["bank"].entries = {"login"}
    /\ info = ("bank" :> ("login" :> "Password"))

----------------------------------------------------------------------------
(* Claims about the failure of the conversion *)

\* the submit about to be handled finalizes the pending operation: a valid
\* password prompt is on top, or an entry form that reuses a password
submit_finalizes ==
    \/ valid_password_on_top
    \/ /\ top_is("Entry")
       /\ entry_key_in_cache
       /\ complete(temp_message)
       /\ password_steps # {}

----------------------------------------------------------------------------
(* Claims about local validation *)

\* the active PasswordPrompt has an empty password, or requires a confirmation
\* that differs from the password
invalid_password_on_top ==
    /\ top_is("Password")
    /\ \/ active_state.password = ""
       \/ /\ active_state.confirm # None
          /\ active_state.confirm # Some(active_state.password)

\* C21: a submit with a PasswordPrompt on top whose password is empty, or
\* whose required confirmation differs from the password, changes neither the
\* stack nor the Pending Operation and sends nothing.
C21_InvalidPasswordRefused ==
    [][(last' = "Submit" /\ invalid_password_on_top) =>
            /\ internal_state' = internal_state
            /\ temp_message' = temp_message
            /\ sent' = <<>>
            /\ ~panicked']_vars

\* a prompt whose confirmation differs from its password was submitted while
\* connected, with a complete Create pending: it is still there
C21_Witness ==
    /\ last = "Submit"
    /\ arm = "Password"
    /\ state = "Connected"
    /\ top_is("Password")
    /\ active_state.password = "p"
    /\ active_state.confirm = Some("")
    /\ temp_message.tag = "New"
    /\ complete(temp_message)
    /\ sent = <<>>

----------------------------------------------------------------------------
(* Claims about responses that arrive late *)

\* C22: a Read response handled while the top of the Workflow Stack is not an
\* ExistingEntryForm for a returned key changes neither the Workflow Stack nor
\* the Pending Operation.
C22_StaleReadIgnored ==
    [][\A d \in ReadsData :
        (/\ ReceiveRead(d)
         /\ ~(top_is("Entry") /\ active_state.key \in DOMAIN d))
        => /\ internal_state' = internal_state
           /\ temp_message' = temp_message]_vars

----------------------------------------------------------------------------
(* Claims about the live step *)

\* the step kinds an input event is addressed to
input_targets(ev) ==
    CASE ev \in {"PasswordChanged", "PasswordConfirmChanged"} -> {"Password"}
      [] ev = "PromptChanged" -> {"Prompt"}
      [] ev \in {"ChangeName", "SelectStyle"} -> {"New"}
      [] ev = "UpdateField" -> {"New", "Entry"}
      [] OTHER -> {}

InputEvents ==
    {"PasswordChanged", "PasswordConfirmChanged", "PromptChanged", "ChangeName",
     "SelectStyle", "UpdateField"}

\* C23: an input event whose target step kind is not on top of the Workflow
\* Stack changes neither a step of the stack nor the Pending Operation.
C23_OnlyTopIsLive ==
    [][(/\ last' \in InputEvents
        /\ ~(\E kind \in input_targets(last') : top_is(kind)))
       => /\ internal_state' = internal_state
          /\ temp_message' = temp_message]_vars

----------------------------------------------------------------------------
(* Implicit invariants of the pending-operation state machine *)

\* C24: whenever the Workflow Stack is empty the Pending Operation is Empty.
C24_IdleHasNoPending ==
    internal_state = <<>> => temp_message = Empty

\* the prompt of a Delete or Read was the only step and was cancelled: the
\* stack is empty and the operation is gone with it
C24_Witness ==
    /\ last = "Exit"
    /\ arm = "Password"
    /\ internal_state = <<>>
    /\ temp_message = Empty
    /\ info # EmptyMap

\* C25: handling a password submit never aborts: whenever a PasswordPrompt is
\* on top and the Pending Operation is Read(vault, key), the Directory Cache
\* has vault and key, also after a snapshot that arrived since the Read was
\* started.
C25_ReadKeyStaysCached ==
    /\ (top_is("Password") /\ temp_message.tag = "Get") =>
            info_has(temp_message.vault, temp_message.key)
    /\ (last = "Submit" /\ arm = "Password") => ~panicked

\* tag of the request with_password makes of a pending operation
finalized_tag(tm) ==
    CASE tm.tag \in {"New", "Update"} -> "Update"
      [] tm.tag = "Empty" -> "Info"
      [] OTHER -> tm.tag

\* C26: whenever a submit resets a non-Empty Pending Operation to Empty and
\* clears the Workflow Stack, the operation's finalized request was handed to
\* the connection in that step, connected or not.
C26_NoSilentDrop ==
    [][(/\ last' = "Submit"
        /\ ~panicked'
        /\ temp_message # Empty
        /\ temp_message' = Empty
        /\ internal_state' = <<>>)
       => /\ sent' # <<>>
          /\ sent'[1].tag = finalized_tag(temp_message)
          /\ sent'[1].vault = temp_message.vault]_vars

\* positions of the NewEntryForm steps of the stack
new_entry_steps == {i \in 1..Len(internal_state) : internal_state[i].kind = "New"}

\* the NewEntryForm pushed last
newest_form ==
    internal_state[CHOOSE i \in new_entry_steps : \A j \in new_entry_steps : j <= i]

\* C27: whenever the Pending Operation is Create(vault, key, ..) and a
\* NewEntryForm is in the Workflow Stack, the vault and the name of the form
\* (the one pushed last) are the vault and the key of the Pending Operation.
C27_FormMatchesPending ==
    (temp_message.tag = "New" /\ new_entry_steps # {}) =>
        /\ newest_form.vault = temp_message.vault
        /\ newest_form.name = temp_message.key

----------------------------------------------------------------------------
(* Claims about the expiry of copied secrets *)

\* the secrets copied so far
copied_secrets == {copies[i].secret : i \in 1..Len(copies)}

\* C28: no restore write puts a copied secret back onto the clipboard, and
\* once every timer has fired and every command has run the clipboard holds
\* none of the copied secrets.
C28_SecretsExpire ==
    /\ \A i \in 1..Len(writes) : writes[i] \notin copied_secrets
    /\ (clip_quiescent /\ copies # <<>>) => clipboard \notin copied_secrets

====
